---- MODULE Spec2Model ----
(***************************************************************************)
(* Titanic survival prediction: the offline pipeline (src/process_data.py, *)
(* src/train.py) and the serving process (src/api.py).                     *)
(*                                                                         *)
(* Representation.                                                         *)
(*  - A Python str is a sequence of one-character strings, so that the     *)
(*    regular expression of the title extraction and Cabin.str[0] are      *)
(*    computed, not looked up.                                             *)
(*  - A cell that may be missing (None / NaN) is None == << >> or          *)
(*    Some(v) == << v >>.                                                  *)
(*  - Age is held in half years and Fare in 1/20000 of a pound, so that    *)
(*    the median of an even number of values ((a + b) / 2) is exact.       *)
(*  - A data frame is a sequence of rows; a row is a record.               *)
(***************************************************************************)
EXTENDS Integers, Sequences, FiniteSets, TLC

\* ------------------------------------------------------------------------
\* Bounds of the model
\* ------------------------------------------------------------------------
MaxRows == 2
MaxBatch == 2

\* ------------------------------------------------------------------------
\* Missing values
\* ------------------------------------------------------------------------
None == << >>
Some(v) == << v >>
isna(c) == c = None
Val(c) == c[1]

\* ------------------------------------------------------------------------
\* Strings
\* ------------------------------------------------------------------------
Upper == {"A","B","C","D","E","F","G","H","I","J","K","L","M",
          "N","O","P","Q","R","S","T","U","V","W","X","Y","Z"}
Lower == {"a","b","c","d","e","f","g","h","i","j","k","l","m",
          "n","o","p","q","r","s","t","u","v","w","x","y","z"}
\* the character class [A-Za-z] of the title pattern
Letters == Upper \cup Lower

\* the characters in use, in code point order (Python's str ordering)
Ascii == << " ", ",", ".", "/",
            "0","1","2","3","4","5","6","7","8","9",
            "A","B","C","D","E","F","G","H","I","J","K","L","M",
            "N","O","P","Q","R","S","T","U","V","W","X","Y","Z",
            "a","b","c","d","e","f","g","h","i","j","k","l","m",
            "n","o","p","q","r","s","t","u","v","w","x","y","z" >>
Ord(c) == CHOOSE i \in 1..Len(Ascii) : Ascii[i] = c

Min(a, b) == IF a < b THEN a ELSE b

\* the sequence s as a tuple of its elements (s itself; TLC then holds the
\* elements instead of the expression that computes them)
Tuple(s) == s \o << >>

\* a < b for Python strings
StrLess(a, b) ==
    LET n == Min(Len(a), Len(b))
        diff == {i \in 1..n : a[i] # b[i]}
    IN  IF diff = {} THEN Len(a) < Len(b)
        ELSE LET k == CHOOSE i \in diff : \A j \in diff : i <= j
             IN  Ord(a[k]) < Ord(b[k])

RECURSIVE SortStrs(_)
\* sorted(S) for a set of strings
SortStrs(S) ==
    IF S = {} THEN << >>
    ELSE LET m == CHOOSE x \in S : \A y \in S \ {x} : StrLess(x, y)
         IN  << m >> \o SortStrs(S \ {m})

RECURSIVE SortInts(_)
\* the values of a sequence of integers in ascending order
SortInts(s) ==
    IF s = << >> THEN << >>
    ELSE LET k == CHOOSE i \in 1..Len(s) : \A j \in 1..Len(s) : s[i] <= s[j]
         IN  << s[k] >> \o SortInts([i \in 1..(Len(s) - 1) |->
                                        IF i < k THEN s[i] ELSE s[i + 1]])

\* ------------------------------------------------------------------------
\* String literals of the program
\* ------------------------------------------------------------------------
s_male == <<"m","a","l","e">>
s_female == <<"f","e","m","a","l","e">>
s_other == <<"o","t","h","e","r">>
s_S == <<"S">>
s_C == <<"C">>
s_Q == <<"Q">>
s_Unknown == <<"U","n","k","n","o","w","n">>
s_Rare == <<"R","a","r","e">>
s_Miss == <<"M","i","s","s">>
s_Mrs == <<"M","r","s">>
s_Mr == <<"M","r">>
s_Mlle == <<"M","l","l","e">>
s_Ms == <<"M","s">>
s_Mme == <<"M","m","e">>
s_Dr == <<"D","r">>
s_Baron == <<"B","a","r","o","n">>
s_empty == << >>

rare_titles == { <<"L","a","d","y">>,
                 <<"C","o","u","n","t","e","s","s">>,
                 <<"C","a","p","t">>,
                 <<"C","o","l">>,
                 <<"D","o","n">>,
                 s_Dr,
                 <<"M","a","j","o","r">>,
                 <<"R","e","v">>,
                 <<"S","i","r">>,
                 <<"J","o","n","k","h","e","e","r">>,
                 <<"D","o","n","a">> }

\* ------------------------------------------------------------------------
\* pandas operations used by the program
\* ------------------------------------------------------------------------
\* df[name] : the column as a sequence of cells
Column(df, name) == Tuple([i \in 1..Len(df) |-> df[i][name]])

\* the non-missing values of a column, in row order
RECURSIVE dropna(_)
dropna(col) ==
    IF col = << >> THEN << >>
    ELSE (IF isna(Head(col)) THEN << >> ELSE << Val(Head(col)) >>)
         \o dropna(Tail(col))

\* Series.fillna(value): a missing cell takes the value, which is itself a
\* cell (filling with NaN leaves the cell missing)
fillna(c, value) == IF isna(c) THEN value ELSE c

\* the middle of the sorted values s
Middle(s) ==
    LET n == Len(s)
    IN  IF n = 0 THEN None
        ELSE IF n % 2 = 1 THEN Some(s[(n + 1) \div 2])
        ELSE Some((s[n \div 2] + s[n \div 2 + 1]) \div 2)

\* Series.median(): missing cells are skipped; NaN when nothing is left
median(col) == Middle(SortInts(dropna(col)))

\* the most frequent of the values vals, sorted
MostFrequent(vals) ==
    LET count(v) == Cardinality({i \in 1..Len(vals) : vals[i] = v})
        S == {vals[i] : i \in 1..Len(vals)}
    IN  SortStrs({v \in S : \A w \in S : count(w) <= count(v)})

\* Series.mode(): the most frequent non-missing values, sorted; empty when
\* every cell is missing
mode(col) == MostFrequent(dropna(col))

\* the end of the longest run of letters of s that starts at k (k - 1 when
\* there is none)
RunEnd(s, k) ==
    CHOOSE j \in (k - 1)..Len(s) :
        /\ \A m \in k..j : s[m] \in Letters
        /\ (j = Len(s) \/ s[j + 1] \notin Letters)

\* the pattern matches s at i, its letters ending at e
MatchAt(s, i, e) ==
    s[i] = " " /\ e >= i + 1 /\ e < Len(s) /\ s[e + 1] = "."

\* the group of the match of s that starts at the least of starts
FirstGroup(s, starts) ==
    IF starts = {} THEN None
    ELSE LET i == CHOOSE x \in starts : \A y \in starts : x <= y
         IN  Some(SubSeq(s, i + 1, RunEnd(s, i + 1)))

\* Series.str.extract(r' ([A-Za-z]+)\.', expand=False) on one cell: the
\* group of the leftmost match, NaN when the cell is missing or nothing
\* matches
str_extract(c) ==
    IF isna(c) THEN None
    ELSE FirstGroup(Val(c), {i \in 1..Len(Val(c)) :
                                MatchAt(Val(c), i, RunEnd(Val(c), i + 1))})

\* Series.replace(to_replace, value) on one cell
replace(c, to_replace, value) ==
    IF ~isna(c) /\ Val(c) \in to_replace THEN Some(value) ELSE c

\* Series.str[0] on one cell: NaN for a missing cell and for the empty
\* string
str_0(c) ==
    IF isna(c) \/ Val(c) = << >> THEN None ELSE Some(<< Val(c)[1] >>)

\* the row r with the columns Title, FamilySize, IsAlone and Deck assigned
Assign(r, Title, FamilySize, IsAlone, Deck) ==
    [Pclass |-> r.Pclass, Sex |-> r.Sex, SibSp |-> r.SibSp, Parch |-> r.Parch,
     Age |-> r.Age, Fare |-> r.Fare, Embarked |-> r.Embarked, Name |-> r.Name,
     Cabin |-> r.Cabin, Ticket |-> r.Ticket,
     Title |-> Title, FamilySize |-> FamilySize, IsAlone |-> IsAlone,
     Deck |-> Deck]

\* ------------------------------------------------------------------------
\* Feature construction shared by both paths
\* ------------------------------------------------------------------------
features == << "Pclass", "Sex", "SibSp", "Parch", "Age", "Fare", "Embarked",
               "Title", "FamilySize", "IsAlone", "Deck" >>

\* the columns a frame always holds as integers (never missing)
IntColumns == {"Pclass", "SibSp", "Parch", "FamilySize", "IsAlone"}

\* the columns that hold strings
StrColumns == {"Sex", "Embarked", "Title", "Deck"}

\* the cell of row r in column f
Cell(r, f) ==
    IF f \in IntColumns \cup {"Sex"} THEN Some(r[f]) ELSE r[f]

\* the name of a column of the encoded frame: a column that is passed
\* through has no category, a dummy column "col_category" has one
NumCol(f) == [col |-> f, val |-> None]
DummyCol(f, v) == [col |-> f, val |-> Some(v)]

\* the title rules of both paths: rare titles, then the three synonyms
title_rules(c) ==
    LET t1 == replace(c, rare_titles, s_Rare)
        t2 == replace(t1, {s_Mlle}, s_Miss)
        t3 == replace(t2, {s_Ms}, s_Miss)
    IN  replace(t3, {s_Mme}, s_Mrs)

\* the members of the sequence fs that are in the set S, in order
RECURSIVE Restrict(_, _)
Restrict(fs, S) ==
    IF fs = << >> THEN << >>
    ELSE (IF Head(fs) \in S THEN << Head(fs) >> ELSE << >>)
         \o Restrict(Tail(fs), S)

\* the dummy columns of column f with the sorted categories cats
Dummies(f, cats) == Tuple([k \in 1..Len(cats) |-> DummyCol(f, cats[k])])

RECURSIVE DummyColumns(_, _)
\* the dummy columns of the encoded columns enc of df: per column, one per
\* category present, categories sorted
DummyColumns(df, enc) ==
    IF enc = << >> THEN << >>
    ELSE Dummies(Head(enc),
                 SortStrs({Val(Cell(df[i], Head(enc))) :
                              i \in {j \in 1..Len(df) : ~isna(Cell(df[j], Head(enc)))}}))
         \o DummyColumns(df, Tail(enc))

\* the frame of df in the columns cols: a column that is passed through
\* keeps its cells, a dummy column is 1 where the cell is its category
Encoded(df, cols) ==
    [columns |-> cols,
     rows |-> Tuple([i \in 1..Len(df) |->
                 Tuple([k \in 1..Len(cols) |->
                    IF isna(cols[k].val) THEN Cell(df[i], cols[k].col)
                    ELSE IF Cell(df[i], cols[k].col) = cols[k].val
                         THEN Some(1) ELSE Some(0)])])]

\* the columns that are passed through as they are
PassedColumns(passed) == Tuple([k \in 1..Len(passed) |-> NumCol(passed[k])])

\* pd.get_dummies(df[features]) where object is the set of columns of
\* object dtype: the other columns first, then the dummies of each object
\* column; a missing cell sets no dummy
get_dummies(df, object) ==
    Encoded(df,
            PassedColumns(Restrict(features, {f \in DOMAIN df[1] : f \notin object}))
            \o DummyColumns(df, Restrict(features, object)))

\* the position of column c in the sequence cols (0 when absent)
IndexOf(cols, c) ==
    IF \E k \in 1..Len(cols) : cols[k] = c
    THEN CHOOSE k \in 1..Len(cols) : cols[k] = c
    ELSE 0

\* ------------------------------------------------------------------------
\* src/process_data.py
\* ------------------------------------------------------------------------
\* df['Embarked'].mode()[0] raises when no row has an Embarked
handle_missing_values_raises(df) == mode(Column(df, "Embarked")) = << >>

handle_missing_values(df) ==
    LET median_Age == median(Column(df, "Age"))
        median_Fare == median(Column(df, "Fare"))
        mode_Embarked == mode(Column(df, "Embarked"))[1]
    IN  Tuple([i \in 1..Len(df) |->
            [df[i] EXCEPT
                !.Age = fillna(@, median_Age),
                !.Fare = fillna(@, median_Fare),
                !.Embarked = fillna(@, Some(mode_Embarked)),
                !.Cabin = fillna(@, Some(s_Unknown))]])

create_features(df) ==
    Tuple([i \in 1..Len(df) |->
        LET r == df[i]
            FamilySize == r.SibSp + r.Parch + 1
        IN  Assign(r, title_rules(str_extract(r.Name)),
                   FamilySize,
                   IF FamilySize = 1 THEN 1 ELSE 0,
                   fillna(str_0(r.Cabin), Some(s_Unknown)))])

\* X_test given the columns of X_train: the missing columns are added as
\* 0 and the frame is reindexed to the columns of X_train
align_test(X_test, train_columns) ==
    [columns |-> train_columns,
     rows |-> Tuple([i \in 1..Len(X_test.rows) |->
                 Tuple([k \in 1..Len(train_columns) |->
                    IF IndexOf(X_test.columns, train_columns[k]) = 0
                    THEN Some(0)
                    ELSE X_test.rows[i][IndexOf(X_test.columns, train_columns[k])]])])]

\* process_data from the alignment of the test columns on
process_data_encoded(train_data, test_data, X_train, X_test) ==
    [train_data |-> train_data,
     test_data |-> test_data,
     X_train |-> X_train,
     X_test |-> align_test(X_test, X_train.columns)]

\* process_data from the dummy variables on
process_data_features(train_data, test_data) ==
    process_data_encoded(train_data, test_data,
                         get_dummies(train_data, StrColumns),
                         get_dummies(test_data, StrColumns))

\* process_data() on the two frames read from the csv files
process_data(train_csv, test_csv) ==
    process_data_features(create_features(handle_missing_values(train_csv)),
                          create_features(handle_missing_values(test_csv)))

\* ------------------------------------------------------------------------
\* src/train.py
\* ------------------------------------------------------------------------
\* RandomForestClassifier(n_estimators, max_depth, random_state)
n_estimators == 100
max_depth == 5
random_state == 1

\* the classifier fitted on the columns of X, split on column k (0: no
\* split) whose training values, sorted, are v: at the smallest of them.
\* No value is missing in v, so a missing value met by predict is sent to
\* the child that holds more training rows (to the left one when it is
\* the larger).
split_at(columns, k, v) ==
    [feature_names_in_ |-> columns,
     n_estimators |-> n_estimators,
     max_depth |-> max_depth,
     random_state |-> random_state,
     split |-> k,
     threshold |-> IF k = 0 THEN 0 ELSE v[1],
     missing_go_to_left |->
         k # 0 /\ 2 * Cardinality({i \in 1..Len(v) : v[i] <= v[1]}) > Len(v)]

\* the classifier fitted on X, split on column k (0: no split)
fitted(X, k) ==
    split_at(X.columns, k,
             IF k = 0 THEN << >>
             ELSE SortInts(dropna([i \in 1..Len(X.rows) |-> X.rows[i][k]])))

\* the least member of a set of column positions (0 when empty)
FirstOf(S) == IF S = {} THEN 0 ELSE CHOOSE a \in S : \A b \in S : a <= b

\* train_model on the frame X (the columns of train_processed.csv without
\* PassengerId and Survived).  fit records the columns of X as
\* feature_names_in_.  With random_state fixed the fitted classifier is a
\* function of the training frame; it is held as one split: the first
\* column whose training values differ, at the smallest of them.
train_model(X) ==
    fitted(X, FirstOf({k \in 1..Len(X.columns) :
                          \E i, j \in 1..Len(X.rows) : X.rows[i][k] # X.rows[j][k]}))

\* ------------------------------------------------------------------------
\* src/api.py
\* ------------------------------------------------------------------------
\* The pandas and scikit-learn that api.py imports; the repository pins no
\* version of either.  no_silent_downcasting: fillna leaves an object
\* column object (otherwise an object column that holds only NaN after the
\* fill becomes float64).  allow_nan: the forest's predict and
\* predict_proba take NaN (otherwise they raise ValueError).
Libs == [no_silent_downcasting : BOOLEAN, allow_nan : BOOLEAN]

\* the pandas and scikit-learn that the serving process has imported
VARIABLE libs

\* the bounds of the Age field of Passenger, in years
AgeGe == 0
AgeLe == 120

\* Passenger(...) is constructed: the Field constraints hold
Passenger(p) ==
    /\ p.Pclass >= 1 /\ p.Pclass <= 3
    /\ p.SibSp >= 0
    /\ p.Parch >= 0
    /\ (isna(p.Age) \/ (Val(p.Age) >= 2 * AgeGe /\ Val(p.Age) <= 2 * AgeLe))
    /\ (isna(p.Fare) \/ Val(p.Fare) >= 0)

\* reconcile without the final X = X[model_features]: the columns of the
\* model that X lacks are appended as 0 and nothing is dropped or reordered
reconcile_unordered(X, model_features) ==
    LET missing_cols == Restrict(model_features,
                            {c \in {model_features[k] : k \in 1..Len(model_features)} :
                                IndexOf(X.columns, c) = 0})
    IN  [columns |-> X.columns \o missing_cols,
         rows |-> Tuple([i \in 1..Len(X.rows) |->
                     X.rows[i] \o Tuple([k \in 1..Len(missing_cols) |-> Some(0)])])]

\* the columns of X are made those of the model: the columns of the model
\* that X lacks are added as 0, then X = X[model_features]
reconcile(X, model_features) ==
    [columns |-> model_features,
     rows |-> Tuple([i \in 1..Len(X.rows) |->
                 Tuple([k \in 1..Len(model_features) |->
                    IF IndexOf(X.columns, model_features[k]) = 0
                    THEN Some(0)
                    ELSE X.rows[i][IndexOf(X.columns, model_features[k])]])])]

\* the imputation step of preprocess_passenger on the one-row frame df
impute_passenger(df) ==
    Tuple([i \in 1..Len(df) |->
        [df[i] EXCEPT
            !.Age = IF \E j \in 1..Len(df) : isna(df[j].Age)
                    THEN fillna(@, median(Column(df, "Age"))) ELSE @,
            !.Fare = IF \E j \in 1..Len(df) : isna(df[j].Fare)
                     THEN fillna(@, median(Column(df, "Fare"))) ELSE @,
            !.Embarked = fillna(@, Some(s_S)),
            !.Cabin = fillna(@, Some(s_Unknown))]])

\* the feature step with FamilySize = SibSp + Parch (the passenger is not
\* counted)
engineer_passenger_no_self(df) ==
    Tuple([i \in 1..Len(df) |->
        LET r == df[i]
            FamilySize == r.SibSp + r.Parch
        IN  Assign(r, IF ~(\A j \in 1..Len(df) : isna(df[j].Name))
                      THEN title_rules(str_extract(r.Name))
                      ELSE Some(s_Unknown),
                   FamilySize,
                   IF FamilySize = 1 THEN 1 ELSE 0,
                   fillna(str_0(r.Cabin), Some(s_Unknown)))])

\* the feature step of preprocess_passenger
engineer_passenger(df) ==
    Tuple([i \in 1..Len(df) |->
        LET r == df[i]
            FamilySize == r.SibSp + r.Parch + 1
        IN  Assign(r, IF ~(\A j \in 1..Len(df) : isna(df[j].Name))
                      THEN title_rules(str_extract(r.Name))
                      ELSE Some(s_Unknown),
                   FamilySize,
                   IF FamilySize = 1 THEN 1 ELSE 0,
                   fillna(str_0(r.Cabin), Some(s_Unknown)))])

\* the columns of object dtype when get_dummies is reached: the str fields,
\* and an Optional[float] field whose value is None (an object column of
\* pd.DataFrame([passenger_data])) when the fillna with its median, NaN,
\* has left the column object; otherwise that fillna has made it float64
object_columns(passenger_data) ==
    StrColumns \cup {f \in {"Age", "Fare"} :
                        isna(passenger_data[f]) /\ libs.no_silent_downcasting}

\* preprocess_passenger from the reconciliation with the model on
preprocess_encoded(imputed, engineered, dummies, m) ==
    [imputed |-> imputed[1],
     engineered |-> engineered[1],
     dummies |-> dummies,
     X |-> reconcile(dummies, m.feature_names_in_)]

\* preprocess_passenger from the dummy variables on
preprocess_engineered(passenger_data, imputed, engineered, m) ==
    preprocess_encoded(imputed, engineered,
                       get_dummies(engineered, object_columns(passenger_data)), m)

\* preprocess_passenger from the engineered features on
preprocess_imputed(passenger_data, imputed, m) ==
    preprocess_engineered(passenger_data, imputed, engineer_passenger(imputed), m)

\* preprocess_passenger(passenger_data) with the model m bound; the frames
\* after each step are kept
preprocess_passenger(passenger_data, m) ==
    preprocess_imputed(passenger_data, impute_passenger(<< passenger_data >>), m)

\* the classifier rejects a frame that holds NaN (ValueError: Input X
\* contains NaN) unless its trees take missing values
predict_raises(X) ==
    ~libs.allow_nan /\ \E k \in 1..Len(X.rows[1]) : isna(X.rows[1][k])

\* model.predict_proba(X)[0][1], in percent
predict_proba(m, X) ==
    IF m.split = 0 THEN 50
    ELSE IF isna(X.rows[1][m.split])
    THEN IF m.missing_go_to_left THEN 20 ELSE 80
    ELSE IF Val(X.rows[1][m.split]) > m.threshold THEN 80 ELSE 20

\* model.predict(X)[0]
predict(m, X) == IF predict_proba(m, X) > 50 THEN 1 ELSE 0

\* ------------------------------------------------------------------------
\* The data of the model's runs
\* ------------------------------------------------------------------------
\* "Braund, Mr. Owen Harris"
n_Braund ==
    <<"B","r","a","u","n","d",","," ","M","r","."," ","O","w","e","n"," ","H","a","r","r","i","s">>

\* "Cumings, Mrs. John Bradley"
n_Cumings ==
    <<"C","u","m","i","n","g","s",","," ","M","r","s","."," ","J","o","h","n"," ","B","r","a","d","l","e","y">>

\* "Heikkinen, Miss. Laina"
n_Heikkinen ==
    <<"H","e","i","k","k","i","n","e","n",","," ","M","i","s","s","."," ","L","a","i","n","a">>

\* "Mr. Owen Harris Braund"
n_MrBraund ==
    <<"M","r","."," ","O","w","e","n"," ","H","a","r","r","i","s"," ","B","r","a","u","n","d">>

\* "Mrs. John Bradley Cumings"
n_MrsCumings ==
    <<"M","r","s","."," ","J","o","h","n"," ","B","r","a","d","l","e","y"," ","C","u","m","i","n","g","s">>

\* "Rose DeWitt Bukater"
n_Rose ==
    <<"R","o","s","e"," ","D","e","W","i","t","t"," ","B","u","k","a","t","e","r">>

\* "Sagesser, Mlle. Emma"
n_Sagesser ==
    <<"S","a","g","e","s","s","e","r",","," ","M","l","l","e","."," ","E","m","m","a">>

\* "Minahan, Dr. William"
n_Minahan ==
    <<"M","i","n","a","h","a","n",","," ","D","r","."," ","W","i","l","l","i","a","m">>

\* "Smith, Baron. Al"
n_Smith ==
    <<"S","m","i","t","h",","," ","B","a","r","o","n","."," ","A","l">>

\* "C85"
c_C85 ==
    <<"C","8","5">>

\* "B51 B53 B55"
c_B51 ==
    <<"B","5","1"," ","B","5","3"," ","B","5","5">>

\* "A/5 21171"
t_A5 ==
    <<"A","/","5"," ","2","1","1","7","1">>

\* "PC 17599"
t_PC ==
    <<"P","C"," ","1","7","5","9","9">>

\* rows of data/train.csv (an empty csv cell is read as NaN)
Braund ==
    [Pclass |-> 3, Sex |-> s_male, SibSp |-> 1, Parch |-> 0,
     Age |-> Some(44), Fare |-> Some(145000), Embarked |-> Some(s_S),
     Name |-> Some(n_Braund), Cabin |-> None, Ticket |-> Some(t_A5)]
Cumings ==
    [Pclass |-> 1, Sex |-> s_female, SibSp |-> 1, Parch |-> 0,
     Age |-> Some(76), Fare |-> Some(1425666), Embarked |-> Some(s_C),
     Name |-> Some(n_Cumings), Cabin |-> Some(c_C85), Ticket |-> Some(t_PC)]
Heikkinen ==
    [Pclass |-> 3, Sex |-> s_female, SibSp |-> 0, Parch |-> 0,
     Age |-> None, Fare |-> Some(158500), Embarked |-> None,
     Name |-> Some(n_Heikkinen), Cabin |-> None, Ticket |-> Some(t_A5)]

\* the first passenger of test_batch_prediction (test_api.py)
MrBraund ==
    [Pclass |-> 3, Sex |-> s_male, SibSp |-> 1, Parch |-> 0,
     Age |-> Some(44), Fare |-> Some(145000), Embarked |-> Some(s_S),
     Name |-> Some(n_MrBraund), Cabin |-> Some(s_empty), Ticket |-> Some(t_A5)]
\* the second passenger of test_batch_prediction (test_api.py)
MrsCumings ==
    [Pclass |-> 1, Sex |-> s_female, SibSp |-> 1, Parch |-> 0,
     Age |-> Some(76), Fare |-> Some(1425666), Embarked |-> Some(s_C),
     Name |-> Some(n_MrsCumings), Cabin |-> Some(c_C85), Ticket |-> Some(t_PC)]
\* rose_data (demo_api.py)
Rose ==
    [Pclass |-> 1, Sex |-> s_female, SibSp |-> 0, Parch |-> 0,
     Age |-> Some(34), Fare |-> Some(4226750), Embarked |-> Some(s_S),
     Name |-> Some(n_Rose), Cabin |-> Some(c_B51), Ticket |-> Some(t_PC)]

OptionalFields == {"Age", "Fare", "Embarked", "Name", "Cabin"}

\* the record b with the fields of S absent
Absent(b, S) ==
    [Pclass |-> b.Pclass, Sex |-> b.Sex, SibSp |-> b.SibSp, Parch |-> b.Parch,
     Age |-> IF "Age" \in S THEN None ELSE b.Age,
     Fare |-> IF "Fare" \in S THEN None ELSE b.Fare,
     Embarked |-> IF "Embarked" \in S THEN None ELSE b.Embarked,
     Name |-> IF "Name" \in S THEN None ELSE b.Name,
     Cabin |-> IF "Cabin" \in S THEN None ELSE b.Cabin,
     Ticket |-> b.Ticket]

TrainPool == {Braund, Cumings, Heikkinen}
TestPool == {Cumings, Heikkinen}

\* the frames of MaxRows rows over a pool of rows (a row may repeat)
Frames(pool) == [1..MaxRows -> pool]

\* the optional fields that a request leaves out: none, one, or all
AbsentSets == {{}, OptionalFields} \cup {{f} : f \in OptionalFields}

BaseRequests ==
    {Rose, MrBraund, Cumings,
     [Rose EXCEPT !.Name = Some(n_Sagesser)],
     [Braund EXCEPT !.Name = Some(n_Minahan), !.Cabin = Some(s_empty)],
     [Braund EXCEPT !.Name = Some(n_Smith), !.Embarked = Some(s_Q)]}

\* request bodies that pydantic parses into the fields of Passenger
Requests ==
    {Absent(b, S) : b \in BaseRequests, S \in AbsentSets}
    \cup TrainPool
    \cup {[Rose EXCEPT !.Pclass = 0], [Rose EXCEPT !.Pclass = 4],
          [Rose EXCEPT !.Sex = s_other],
          [Rose EXCEPT !.SibSp = -1], [Rose EXCEPT !.Parch = -1],
          [Rose EXCEPT !.Age = Some(-2)], [Rose EXCEPT !.Age = Some(242)],
          [Rose EXCEPT !.Fare = Some(-1)]}

BatchPool == {MrBraund, MrsCumings, Heikkinen, [Rose EXCEPT !.Pclass = 4]}
Batches == UNION {[1..n -> BatchPool] : n \in 0..MaxBatch}

\* ------------------------------------------------------------------------
\* State
\* ------------------------------------------------------------------------
VARIABLES
    train_csv,    \* data/train.csv as read by load_data
    test_csv,     \* data/test.csv as read by load_data
    pipeline,     \* the offline pipeline: "start", "processed", "trained", "failed"
    processed,    \* what process_data returned (None before)
    model_file,   \* models/titanic_random_forest.joblib (None while absent)
    model,        \* the global model of api.py (None until loaded)
    api,          \* the serving process: "down", "running", "crashed"
    last          \* the outcome of the last handler call

vars == << libs, train_csv, test_csv, pipeline, processed, model_file, model, api, last >>

\* the outcome of a handler: the response, and the locals of the call (the
\* dicts that reached preprocess_passenger and what it computed for each)
Outcome(endpoint, status, detail, dicts, traces, body) ==
    [endpoint |-> endpoint, status |-> status, detail |-> detail,
     dicts |-> dicts, traces |-> traces, body |-> body]

Init ==
    /\ libs \in Libs
    /\ train_csv \in Frames(TrainPool)
    /\ test_csv \in Frames(TestPool)
    /\ pipeline = "start"
    /\ processed = None
    /\ model_file = None
    /\ model = None
    /\ api = "down"
    /\ last = Outcome("none", 0, "", << >>, << >>, << >>)

\* ------------------------------------------------------------------------
\* The offline pipeline (run_pipeline.py)
\* ------------------------------------------------------------------------
\* src/process_data.py as a script
ProcessData ==
    /\ pipeline = "start"
    /\ IF handle_missing_values_raises(train_csv)
          \/ handle_missing_values_raises(test_csv)
       THEN /\ pipeline' = "failed"
            /\ UNCHANGED processed
       ELSE /\ pipeline' = "processed"
            /\ processed' = Some(process_data(train_csv, test_csv))
    /\ UNCHANGED << libs, train_csv, test_csv, model_file, model, api, last >>

\* src/train.py as a script: the model is fitted on the processed training
\* frame and dumped
TrainModel ==
    /\ pipeline = "processed"
    /\ pipeline' = "trained"
    /\ model_file' = Some(train_model(Val(processed).X_train))
    /\ UNCHANGED << libs, train_csv, test_csv, processed, model, api, last >>

\* ------------------------------------------------------------------------
\* The serving process (src/api.py)
\* ------------------------------------------------------------------------
\* load_model(): raises FileNotFoundError when the file is absent
load_model_raises == model_file = None
load_model == model_file

\* startup_event: the global is assigned what load_model returned; when
\* load_model raises, the exception is raised again and the process ends
startup_event ==
    /\ api = "down"
    /\ IF load_model_raises
       THEN /\ api' = "crashed"
            /\ UNCHANGED model
       ELSE /\ api' = "running"
            /\ model' = load_model
    /\ UNCHANGED << libs, train_csv, test_csv, pipeline, processed, model_file, last >>

\* no handler call is in progress
Idle == Outcome("none", 0, "", << >>, << >>, << >>)

\* a handler can be called while the process has not ended; before the
\* startup event has run the global model is None.  The calls are taken one
\* at a time: no handler shares anything but the global model with another.
Serving == api # "crashed" /\ last = Idle

\* the response has been sent: the locals of the call are gone
Respond ==
    /\ last # Idle
    /\ last' = Idle
    /\ UNCHANGED << libs, train_csv, test_csv, pipeline, processed, model_file, model, api >>

\* the calls of the classifier on what preprocess_passenger returned (t)
Predicted(passenger_dict, t) ==
    [trace |-> t,
     raises |-> predict_raises(t.X),
     message |-> IF predict_raises(t.X) THEN "Input X contains NaN." ELSE "",
     result |-> IF predict_raises(t.X) THEN None
                ELSE Some([prediction |-> predict(Val(model), t.X),
                           survival_probability |-> predict_proba(Val(model), t.X),
                           passenger_id |-> passenger_dict.Name])]

\* one pass of the body of the try block for one passenger
PredictOne(passenger_dict) ==
    Predicted(passenger_dict, preprocess_passenger(passenger_dict, Val(model)))

\* a try block that answers a pass that raised with a default prediction
predict_survival_try_default(passenger, o) ==
    IF o.raises
    THEN Outcome("predict", 200, "", << passenger >>, << o.trace >>,
                 << [prediction |-> 0, survival_probability |-> 0,
                     passenger_id |-> passenger.Name] >>)
    ELSE Outcome("predict", 200, "",
                 << passenger >>, << o.trace >>, << Val(o.result) >>)

\* the try block of predict_survival, o being its one pass; the except
\* clause puts str(e) in the detail of the error
predict_survival_try(passenger, o) ==
    IF o.raises
    THEN Outcome("predict", 500, "Prediction error: " \o o.message,
                 << passenger >>, << o.trace >>, << >>)
    ELSE Outcome("predict", 200, "",
                 << passenger >>, << o.trace >>, << Val(o.result) >>)

\* POST /predict
predict_survival(passenger) ==
    /\ Serving
    /\ last' =
         IF ~Passenger(passenger)
         THEN Outcome("predict", 422, "validation error", << >>, << >>, << >>)
         ELSE IF model = None
         THEN Outcome("predict", 500, "Model not loaded", << >>, << >>, << >>)
         ELSE predict_survival_try(passenger, PredictOne(passenger))
    /\ UNCHANGED << libs, train_csv, test_csv, pipeline, processed, model_file, model, api >>

\* a try block of predict_batch that returns the results it had computed
\* when a passenger raised
predict_batch_try_partial(passengers, o) ==
    LET bad == {i \in 1..Len(passengers) : o[i].raises}
    IN  IF bad # {}
        THEN LET n == CHOOSE i \in bad : \A j \in bad : i <= j
             IN  Outcome("predict_batch", 200, "",
                         SubSeq(passengers, 1, n),
                         Tuple([i \in 1..n |-> o[i].trace]),
                         Tuple([i \in 1..(n - 1) |-> Val(o[i].result)]))
        ELSE Outcome("predict_batch", 200, "", passengers,
                     Tuple([i \in 1..Len(passengers) |-> o[i].trace]),
                     Tuple([i \in 1..Len(passengers) |-> Val(o[i].result)]))

\* a try block of predict_batch that returns the results last first
predict_batch_try_reversed(passengers, o) ==
    LET bad == {i \in 1..Len(passengers) : o[i].raises}
    IN  IF bad # {}
        THEN LET n == CHOOSE i \in bad : \A j \in bad : i <= j
             IN  Outcome("predict_batch", 500,
                         "Batch prediction error: " \o o[n].message,
                         SubSeq(passengers, 1, n),
                         Tuple([i \in 1..n |-> o[i].trace]), << >>)
        ELSE Outcome("predict_batch", 200, "", passengers,
                     Tuple([i \in 1..Len(passengers) |-> o[i].trace]),
                     Tuple([i \in 1..Len(passengers) |->
                               Val(o[Len(passengers) + 1 - i].result)]))

\* the try block of predict_batch, o being the passes of the loop: the loop
\* stops at the first passenger that raises, and the except clause puts
\* str(e) in the detail of the error
predict_batch_try(passengers, o) ==
    LET bad == {i \in 1..Len(passengers) : o[i].raises}
    IN  IF bad # {}
        THEN LET n == CHOOSE i \in bad : \A j \in bad : i <= j
             IN  Outcome("predict_batch", 500,
                         "Batch prediction error: " \o o[n].message,
                         SubSeq(passengers, 1, n),
                         Tuple([i \in 1..n |-> o[i].trace]), << >>)
        ELSE Outcome("predict_batch", 200, "", passengers,
                     Tuple([i \in 1..Len(passengers) |-> o[i].trace]),
                     Tuple([i \in 1..Len(passengers) |-> Val(o[i].result)]))

\* POST /predict_batch
predict_batch(passengers) ==
    /\ Serving
    /\ last' =
         IF \E i \in 1..Len(passengers) : ~Passenger(passengers[i])
         THEN Outcome("predict_batch", 422, "validation error", << >>, << >>, << >>)
         ELSE IF model = None
         THEN Outcome("predict_batch", 500, "Model not loaded", << >>, << >>, << >>)
         ELSE predict_batch_try(passengers,
                  Tuple([i \in 1..Len(passengers) |-> PredictOne(passengers[i])]))
    /\ UNCHANGED << libs, train_csv, test_csv, pipeline, processed, model_file, model, api >>

\* a health check that binds the model when it finds none
health_check_lazy ==
    /\ Serving
    /\ last' = Outcome("health", 200, "", << >>, << >>,
                       << [status |-> "healthy", model_loaded |-> model # None] >>)
    /\ model' = IF model = None THEN model_file ELSE model
    /\ UNCHANGED << libs, train_csv, test_csv, pipeline, processed, model_file, api >>

\* GET /health
health_check ==
    /\ Serving
    /\ last' = Outcome("health", 200, "", << >>, << >>,
                       << [status |-> "healthy", model_loaded |-> model # None] >>)
    /\ UNCHANGED << libs, train_csv, test_csv, pipeline, processed, model_file, model, api >>

\* GET /model_info
get_model_info ==
    /\ Serving
    /\ last' =
         IF model = None
         THEN Outcome("model_info", 500, "Model not loaded", << >>, << >>, << >>)
         ELSE Outcome("model_info", 200, "", << >>, << >>,
                      << [n_estimators |-> Val(model).n_estimators,
                          max_depth |-> Val(model).max_depth,
                          random_state |-> Val(model).random_state,
                          n_features |-> Len(Val(model).feature_names_in_),
                          features |-> Val(model).feature_names_in_] >>)
    /\ UNCHANGED << libs, train_csv, test_csv, pipeline, processed, model_file, model, api >>

\* GET /
read_root ==
    /\ Serving
    /\ last' = Outcome("root", 200, "", << >>, << >>, << [status |-> "running"] >>)
    /\ UNCHANGED << libs, train_csv, test_csv, pipeline, processed, model_file, model, api >>

Next ==
    \/ ProcessData
    \/ TrainModel
    \/ startup_event
    \/ \E passenger \in Requests : predict_survival(passenger)
    \/ \E passengers \in Batches : predict_batch(passengers)
    \/ health_check
    \/ get_model_info
    \/ read_root
    \/ Respond

Spec == Init /\ [][Next]_vars

\* ------------------------------------------------------------------------
\* Properties
\* ------------------------------------------------------------------------
\* the passengers of the last call that reached preprocess_passenger
Reached == 1..Len(last.traces)

\* the name matches the titled-name pattern: a space, letters, a period
MatchesTitlePattern(name) ==
    \E i \in 1..Len(name) : \E j \in (i + 1)..(Len(name) - 1) :
        /\ name[i] = " "
        /\ \A m \in (i + 1)..j : name[m] \in Letters
        /\ name[j + 1] = "."

\* the record is valid in the sense of the specification (section 4.1)
ValidRecord(p) ==
    /\ p.Pclass \in {1, 2, 3}
    /\ p.Sex \in {s_male, s_female}
    /\ p.SibSp >= 0
    /\ p.Parch >= 0
    /\ (isna(p.Age) \/ (Val(p.Age) >= 0 /\ Val(p.Age) <= 240))
    /\ (isna(p.Fare) \/ Val(p.Fare) >= 0)

\* C1: with a model loaded, the vector preprocess_passenger returns has
\* exactly the columns of model.feature_names_in_, in that order; a column
\* of the schema that the record's own one-hot expansion did not produce is
\* 0, a column it produced keeps its value, and no other column is there.
C1_SchemaClosure ==
    \A i \in Reached :
        LET t == last.traces[i]
            schema == Val(model).feature_names_in_
        IN  /\ t.X.columns = schema
            /\ Len(t.X.rows) = 1
            /\ Len(t.X.rows[1]) = Len(schema)
            /\ \A k \in 1..Len(schema) :
                  IF \E n \in 1..Len(t.dummies.columns) : t.dummies.columns[n] = schema[k]
                  THEN \E n \in 1..Len(t.dummies.columns) :
                          /\ t.dummies.columns[n] = schema[k]
                          /\ t.X.rows[1][k] = t.dummies.rows[1][n]
                  ELSE t.X.rows[1][k] = Some(0)

\* a record was encoded whose expansion has a column the schema lacks and
\* lacks a column the schema has
C1_Witness ==
    /\ last.endpoint = "predict"
    /\ last.status = 200
    /\ \E i \in Reached :
          LET t == last.traces[i]
              schema == Val(model).feature_names_in_
          IN  /\ \E n \in 1..Len(t.dummies.columns) :
                    \A k \in 1..Len(schema) : schema[k] # t.dummies.columns[n]
              /\ \E k \in 1..Len(schema) :
                    \A n \in 1..Len(t.dummies.columns) : schema[k] # t.dummies.columns[n]

\* C2: for a record r of the training frame D, the vector the serving path
\* builds for r alone equals, column by column, the row the training path
\* built for r.
C2_TrainServeAgree ==
    \A i \in Reached : \A j \in 1..Len(train_csv) :
        last.dicts[i] = train_csv[j]
            => last.traces[i].X.rows[1] = Val(processed).X_train.rows[j]

\* C3: a record that arrives with age and embarked absent is imputed with
\* the median age and the most frequent embarked of the training frame.
C3_ImputedFromTrainingStatistics ==
    \A i \in Reached :
        (isna(last.dicts[i].Age) /\ isna(last.dicts[i].Embarked))
            => /\ last.traces[i].imputed.Age = median(Column(train_csv, "Age"))
               /\ last.traces[i].imputed.Embarked
                     = Some(mode(Column(train_csv, "Embarked"))[1])

\* C4: a record with a missing age, fare or embarked that is in both the
\* training frame and the test frame is filled with the same value by the
\* two calls of handle_missing_values.
C4_ImputationStability ==
    ~isna(processed) =>
        \A i \in 1..Len(train_csv) : \A j \in 1..Len(test_csv) :
            train_csv[i] = test_csv[j] =>
                \A f \in {"Age", "Fare", "Embarked"} :
                    isna(train_csv[i][f]) =>
                        Val(processed).train_data[i][f] = Val(processed).test_data[j][f]

\* C5: after the imputation step of preprocess_passenger none of age, fare,
\* embarked, cabin is missing, and no response with a label and a
\* probability was computed from a vector that holds a missing value.
C5_NoMissingValue ==
    \A i \in Reached :
        /\ \A f \in {"Age", "Fare", "Embarked", "Cabin"} :
              ~isna(last.traces[i].imputed[f])
        /\ last.status = 200 =>
              \A k \in 1..Len(last.traces[i].X.rows[1]) :
                  ~isna(last.traces[i].X.rows[1][k])

\* C6: a record whose name is absent, or present without the titled-name
\* pattern, gets the title "Unknown", in preprocess_passenger and in
\* create_features.
C6_TitleUnknown ==
    /\ \A i \in Reached :
          (isna(last.dicts[i].Name) \/ ~MatchesTitlePattern(Val(last.dicts[i].Name)))
              => last.traces[i].engineered.Title = Some(s_Unknown)
    /\ ~isna(processed) =>
          \A j \in 1..Len(train_csv) :
              (isna(train_csv[j].Name) \/ ~MatchesTitlePattern(Val(train_csv[j].Name)))
                  => Val(processed).train_data[j].Title = Some(s_Unknown)

C8_CabinDeckConvention ==
    /\ \A i \in Reached :
          (isna(last.dicts[i].Cabin) \/ last.dicts[i].Cabin = Some(s_empty))
              => /\ last.traces[i].imputed.Cabin = Some(s_Unknown)
                 /\ last.traces[i].engineered.Deck = Some(<< "U" >>)
    /\ ~isna(processed) =>
          \A j \in 1..Len(train_csv) :
              (isna(train_csv[j].Cabin) \/ train_csv[j].Cabin = Some(s_empty))
                  => /\ Val(processed).train_data[j].Cabin = Some(s_Unknown)
                     /\ Val(processed).train_data[j].Deck = Some(<< "U" >>)

\* C9: no record that violates class in {1,2,3}, sex in {male, female},
\* SibSp >= 0, Parch >= 0, age in [0,120], fare >= 0 reaches
\* preprocess_passenger.
C9_ValidationBeforePreprocessing ==
    \A i \in 1..Len(last.dicts) : ValidRecord(last.dicts[i])

\* C10: the model is None or what the startup load returned; it changes
\* only from None to the loaded model, in the startup event and after the
\* load succeeded; a failed load leaves it None; once bound no step changes
\* it.
C10_ModelBinding ==
    [][ /\ model # None => model' = model
        /\ model' # model =>
              /\ model = None
              /\ api = "down" /\ api' = "running"
              /\ model_file # None
              /\ model' = model_file
        /\ (api = "down" /\ api' = "crashed") => (model = None /\ model' = None)
      ]_vars

\* a batch was predicted with the model bound
C10_Witness ==
    /\ model # None
    /\ last.endpoint = "predict_batch"
    /\ last.status = 200
    /\ Len(last.body) = MaxBatch

\* a pass of the try block raised: the classifier refused the frame of a
\* passenger that preprocess_passenger had returned
Raised == \E i \in Reached : predict_raises(last.traces[i].X)

\* C11: a /predict or /predict_batch call answers with labels and
\* probabilities only if a model is bound and every pass of preprocessing
\* and of the classifier completed; with no model bound a validated call
\* fails with "Model not loaded" and nothing was preprocessed; a pass that
\* raised ends the call with an error whose detail carries the message.
C11_NoDowngrade ==
    last.endpoint \in {"predict", "predict_batch"} =>
        /\ last.status = 200 =>
              /\ model # None
              /\ ~Raised
              /\ Len(last.traces) = Len(last.dicts)
              /\ Len(last.body) = Len(last.dicts)
        /\ (model = None /\ last.status # 422) =>
              /\ last.status = 500
              /\ last.detail = "Model not loaded"
              /\ last.dicts = << >> /\ last.traces = << >> /\ last.body = << >>
        /\ Raised =>
              /\ last.status = 500
              /\ last.detail \in {"Prediction error: Input X contains NaN.",
                                  "Batch prediction error: Input X contains NaN."}
              /\ last.body = << >>

\* a /predict call whose classifier call raised has been answered
C11_Witness ==
    /\ last.endpoint = "predict"
    /\ Raised
    /\ last.status = 500
\* what /predict answers for each record that a /predict_batch call took
\* from its request, the record being sent alone
Singles ==
    Tuple([i \in 1..Len(last.dicts) |->
              predict_survival_try(last.dicts[i], PredictOne(last.dicts[i]))])

\* the batch answered one result per record, the i-th of them with the
\* label and the probability of the i-th of the single answers
BatchAgrees(singles) ==
    /\ last.status = 200
    /\ Len(last.body) = Len(singles)
    /\ \A i \in 1..Len(singles) :
          /\ last.body[i].prediction = singles[i].body[1].prediction
          /\ last.body[i].survival_probability
                = singles[i].body[1].survival_probability

\* every record of the batch is predicted when it is sent alone
AllSucceed(singles) == \A i \in 1..Len(singles) : singles[i].status = 200

\* C12: when /predict succeeds for each record of a validated batch sent to
\* a bound model, /predict_batch returns one result per record, in request
\* order, the i-th with the prediction and the survival probability that
\* /predict returns for the i-th record alone.
C12_BatchIsSingles ==
    (last.endpoint = "predict_batch" /\ last.status # 422
        /\ last.detail # "Model not loaded")
        => (AllSucceed(Singles) => BatchAgrees(Singles))

\* a batch of two records with different labels has been answered
C12_Witness ==
    /\ last.endpoint = "predict_batch"
    /\ last.status = 200
    /\ Len(last.body) > 1
    /\ last.dicts[1] # last.dicts[2]
    /\ last.body[1].prediction # last.body[2].prediction
\* C13: every prediction result, of /predict and of /predict_batch, is
\* tagged with the name of its record when the name is present and with
\* "Unknown" when it is absent.
C13_ResultIdentifier ==
    (last.endpoint \in {"predict", "predict_batch"} /\ last.status = 200) =>
        \A i \in 1..Len(last.body) :
            last.body[i].passenger_id
                = IF isna(last.dicts[i].Name) THEN Some(s_Unknown)
                  ELSE last.dicts[i].Name
\* the categorical values of the record of trace t that the model has no
\* column for set no column of their group in the vector
UnseenSetNothing(t, schema) ==
    \A g \in StrColumns :
        (\A k \in 1..Len(schema) :
             schema[k] # [col |-> g, val |-> Cell(t.engineered, g)])
            => \A k \in 1..Len(schema) :
                   schema[k].col = g => t.X.rows[1][k] = Some(0)

\* C14: with a model loaded, every valid record sent to /predict is
\* answered with a label in {0, 1} and a probability in [0, 1] (in percent
\* here), never with an error, whatever optional field is absent, and a
\* categorical value never seen in training sets no column of its group.
C14_ValidAlwaysPredicted ==
    (last.endpoint = "predict" /\ Len(last.dicts) = 1
        /\ ValidRecord(last.dicts[1]))
        => /\ last.status = 200
           /\ Len(last.body) = 1
           /\ last.body[1].prediction \in {0, 1}
           /\ last.body[1].survival_probability \in 0..100
           /\ UnseenSetNothing(last.traces[1], Val(model).feature_names_in_)

\* C15: when a pass of the loop of /predict_batch raises, the call is
\* answered with one error and with no prediction, the predictions of the
\* records before the one that raised included.
C15_BatchAllOrNothing ==
    (last.endpoint = "predict_batch" /\ Raised)
        => /\ last.status = 500
           /\ last.detail = "Batch prediction error: Input X contains NaN."
           /\ last.body = << >>

\* a batch whose first record had been predicted when its second record
\* raised has been answered
C15_Witness ==
    /\ last.endpoint = "predict_batch"
    /\ last.status = 500
    /\ Len(last.traces) > 1
    /\ ~predict_raises(last.traces[1].X)
    /\ predict_raises(last.traces[Len(last.traces)].X)
====
